---------------------------- MODULE Spec2Model ----------------------------
(***************************************************************************)
(* Verification model of unpaper's option-value layer (lib/options.c):     *)
(* options_init, the sscanf-based value parsers, their printf-based        *)
(* formatters, and the bounded wipe list filled by parse_wipe.             *)
(*                                                                         *)
(* A C string is a sequence of one-character strings.  sscanf and printf   *)
(* are modelled character by character.                                    *)
(***************************************************************************)
EXTENDS Integers, Sequences, FiniteSets, TLC

VARIABLES
    pc,        \* position of the caller: "start", "called", "printed", ...
    fn,        \* name of the function called last (SpecRoundTrip: the kind of value)
    val,       \* the value handed to a formatter
    str,       \* the text argument (const char *str)
    slot,      \* the output argument the parser writes through
    prior,     \* content of the output argument before the last call
    ret,       \* return value of the last call
    printed,   \* text written to stdout by the last formatter call
    diag,      \* kind of the message written to stderr by the last parse_wipe
    wipes,     \* Wipes: [count, areas]
    before,    \* the Wipes value before the last parse_wipe call
    accepted,  \* rectangles of the parse_wipe calls that returned true, in order
    o,         \* the Options record
    inited,    \* options_init has been applied to o
    sizeok     \* per size field: return value of the last parse_rectangle_size on it

vars == <<pc, fn, val, str, slot, prior, ret, printed, diag, wipes, before,
          accepted, o, inited, sizeok>>

(***************************************************************************)
(* Bounds of the model.                                                    *)
(***************************************************************************)
\* longest text enumerated exhaustively over the alphabet
MaxLen == 4
\* pair components (sizes, deltas) range over -MaxPair..MaxPair
MaxPair == 11
\* rectangle and border components range over -MaxQuad..MaxQuad
MaxQuad == 2
\* number of elements of Wipes.areas (a compile-time array length)
WipesCapacity == 3

(***************************************************************************)
(* Characters and texts.                                                   *)
(***************************************************************************)
DigitChars == <<"0", "1", "2", "3", "4", "5", "6", "7", "8", "9">>

HexChars == <<"0", "1", "2", "3", "4", "5", "6", "7", "8", "9",
              "a", "b", "c", "d", "e", "f">>

IsDigit(c) == \E i \in 1..10 : DigitChars[i] = c

DigitVal(c) == (CHOOSE i \in 1..10 : DigitChars[i] = c) - 1

\* isspace(), as sscanf applies it before a %d conversion
IsSpace(c) == c \in {" ", "\t", "\n"}

\* all texts of length <= n over the alphabet A
RECURSIVE TextsUpTo(_, _)
TextsUpTo(A, n) ==
    IF n = 0 THEN {<< >>}
    ELSE LET shorter == TextsUpTo(A, n - 1)
         IN  shorter \cup {Append(t, c) : t \in {u \in shorter : Len(u) = n - 1}, c \in A}

(***************************************************************************)
(* sscanf(str, "%d,%d,...") -- lines 62, 85, 168, 195.                     *)
(***************************************************************************)
RECURSIVE SkipSpace(_, _)
SkipSpace(s, i) ==
    IF i <= Len(s) /\ IsSpace(s[i]) THEN SkipSpace(s, i + 1) ELSE i

RECURSIVE DigitsEnd(_, _)
DigitsEnd(s, i) ==
    IF i <= Len(s) /\ IsDigit(s[i]) THEN DigitsEnd(s, i + 1) ELSE i

RECURSIVE DigitsVal(_, _, _, _)
DigitsVal(s, i, e, acc) ==
    IF i >= e THEN acc ELSE DigitsVal(s, i + 1, e, acc * 10 + DigitVal(s[i]))

\* a %d conversion whose sign, if any, is at j and whose digits are s[k..e-1];
\* eof: the input ended before a character of the number
ScanNumber(s, j, k, e) ==
    [ok   |-> e > k,
     eof  |-> j > Len(s),
     val  |-> IF k > j /\ s[j] = "-" THEN 0 - DigitsVal(s, k, e, 0)
              ELSE DigitsVal(s, k, e, 0),
     next |-> e]

\* a %d conversion at j, after the white space: an optional sign, then digits
ScanSigned(s, j) ==
    IF j <= Len(s) /\ s[j] \in {"-", "+"}
    THEN ScanNumber(s, j, j + 1, DigitsEnd(s, j + 1))
    ELSE ScanNumber(s, j, j, DigitsEnd(s, j))

\* one %d conversion at position i: skip white space, then convert
ScanD(s, i) == ScanSigned(s, SkipSpace(s, i))

\* the values converted by n %d directives separated by literal commas;
\* r is the conversion of the first of them
RECURSIVE ScanList(_, _, _, _)
ScanStep(s, n, acc, r) ==
    IF ~r.ok THEN acc
    ELSE IF n > 1 /\ r.next <= Len(s) /\ s[r.next] = ","
         THEN ScanList(s, r.next + 1, n - 1, Append(acc, r.val))
         ELSE Append(acc, r.val)

ScanList(s, i, n, acc) ==
    IF n = 0 THEN acc ELSE ScanStep(s, n, acc, ScanD(s, i))

\* sscanf's result for the values stored: the number of conversions, or EOF
\* (-1) when the input ended before the first one
ScanResult(s, vals) ==
    [count |-> IF vals = << >> /\ ScanD(s, 1).eof THEN -1 ELSE Len(vals),
     vals  |-> vals]

\* sscanf(s, "%d,...,%d") with n conversions
sscanf(s, n) == ScanResult(s, ScanList(s, 1, n, << >>))

\* sscanf stores each converted value through its pointer argument: the first
\* Len(vals) fields of the output are overwritten, the others keep their content
Store(old, vals) ==
    [i \in 1..Len(old) |-> IF i <= Len(vals) THEN vals[i] ELSE old[i]]

(***************************************************************************)
(* printf's %d and %02x conversions -- lines 73, 126, 145, 180, 211.       *)
(***************************************************************************)
RECURSIVE NatToStr(_)
NatToStr(n) ==
    IF n < 10 THEN <<DigitChars[n + 1]>>
    ELSE Append(NatToStr(n \div 10), DigitChars[(n % 10) + 1])

\* a variant of IntToStr that drops the sign
IntToStr_unsigned(n) == IF n < 0 THEN NatToStr(0 - n) ELSE NatToStr(n)

\* "%" PRId32
IntToStr(n) == IF n < 0 THEN <<"-">> \o NatToStr(0 - n) ELSE NatToStr(n)

\* "%02x" of a colour channel (0..255)
Hex2(n) == <<HexChars[(n \div 16) + 1], HexChars[(n % 16) + 1]>>

\* "[%d,%d] "
Bracket2(a, b) ==
    <<"[">> \o IntToStr(a) \o <<",">> \o IntToStr(b) \o <<"]", " ">>

\* "[%d,%d,%d,%d] "
Bracket4(a, b, c, d) ==
    <<"[">> \o IntToStr(a) \o <<",">> \o IntToStr(b) \o <<",">> \o IntToStr(c)
            \o <<",">> \o IntToStr(d) \o <<"]", " ">>

(***************************************************************************)
(* Collaborators declared in imageprocess/ headers, outside lib/options.c. *)
(* A Rectangle is <<x0, y0, x1, y1>> (vertex[0].x, vertex[0].y,            *)
(* vertex[1].x, vertex[1].y); a Pixel is [r, g, b].                        *)
(***************************************************************************)
\* enclosed pixel area; zero for a degenerate or inverted rectangle
count_pixels(rect) ==
    LET w == rect[3] - rect[1]
        h == rect[4] - rect[2]
    IN  IF w > 0 /\ h > 0 THEN w * h ELSE 0

PIXEL_BLACK == [r |-> 0, g |-> 0, b |-> 0]

PIXEL_WHITE == [r |-> 255, g |-> 255, b |-> 255]

\* a Pixel from a packed 0xRRGGBB value: (v >> 16) & 0xff, (v >> 8) & 0xff,
\* v & 0xff.  v stands for the uint32_t with the same 32-bit pattern, whose
\* bits 0..23 floored division and modulus extract
pixel_from_value(v) ==
    [r |-> (v \div 65536) % 256, g |-> (v \div 256) % 256, b |-> v % 256]

\* 0 exactly when the two pixels are equal
compare_pixel(a, b) == IF a = b THEN 0 ELSE 1

(***************************************************************************)
(* The parsers and formatters.  A parser takes the text and the content of *)
(* its output argument before the call, and yields the return value and    *)
(* the content of the output argument after the call.                      *)
(***************************************************************************)
\* a variant of rectangle_scanned that accepts an empty area
rectangle_scanned_nonneg(rect, sc) ==
    IF sc.count # 4 THEN [ret |-> FALSE, out |-> Store(rect, sc.vals)]
    ELSE [ret |-> count_pixels(sc.vals) >= 0, out |-> sc.vals]

\* parse_rectangle after the sscanf call, lines 64-69; sc is sscanf's result
rectangle_scanned(rect, sc) ==
    IF sc.count # 4 THEN [ret |-> FALSE, out |-> Store(rect, sc.vals)]
    ELSE [ret |-> count_pixels(Store(rect, sc.vals)) > 0,
          out |-> Store(rect, sc.vals)]

\* parse_rectangle, lines 61-70
parse_rectangle(s, rect) == rectangle_scanned(rect, sscanf(s, 4))

\* print_rectangle, lines 72-76
print_rectangle(rect) == Bracket4(rect[1], rect[2], rect[3], rect[4])

\* a variant of symmetric_scanned that forgets to copy the lone value
symmetric_scanned_nocopy(v, sc) ==
    [ret |-> sc.count \in {1, 2}, out |-> Store(v, sc.vals)]

\* parse_symmetric_integers' switch on sscanf's result, lines 85-96
symmetric_scanned(v, sc) ==
    CASE sc.count = 1 -> [ret |-> TRUE, out |-> <<sc.vals[1], sc.vals[1]>>]
      [] sc.count = 2 -> [ret |-> TRUE, out |-> Store(v, sc.vals)]
      [] OTHER        -> [ret |-> FALSE, out |-> Store(v, sc.vals)]

\* parse_symmetric_integers, lines 83-97; v is <<*value_1, *value_2>>
parse_symmetric_integers(s, v) == symmetric_scanned(v, sscanf(s, 2))

\* a variant of size_checked without the sign test
size_checked_always(r) == r

\* parse_rectangle_size after the pair is parsed, lines 117-122
size_checked(r) ==
    IF ~r.ret THEN [ret |-> FALSE, out |-> r.out]
    ELSE [ret |-> r.out[1] >= 0 /\ r.out[2] >= 0, out |-> r.out]

\* parse_rectangle_size, lines 116-123; size is <<width, height>>
parse_rectangle_size(s, size) == size_checked(parse_symmetric_integers(s, size))

\* print_rectangle_size, lines 125-127
print_rectangle_size(size) == Bracket2(size[1], size[2])

\* parse_delta, lines 129-131; delta is <<horizontal, vertical>>
parse_delta(s, delta) == parse_symmetric_integers(s, delta)

\* parse_scan_step after the delta is parsed, lines 137-141
step_checked(r) ==
    IF ~r.ret THEN [ret |-> FALSE, out |-> r.out]
    ELSE [ret |-> r.out[1] > 0 /\ r.out[2] > 0, out |-> r.out]

\* parse_scan_step, lines 136-142
parse_scan_step(s, delta) == step_checked(parse_delta(s, delta))

\* print_delta, lines 144-146
print_delta(delta) == Bracket2(delta[1], delta[2])

\* parse_border after the sscanf call, lines 170-176
border_scanned(border, sc) ==
    IF sc.count # 4 THEN [ret |-> FALSE, out |-> Store(border, sc.vals)]
    ELSE [ret |-> \A i \in 1..4 : sc.vals[i] >= 0, out |-> sc.vals]

\* parse_border, lines 167-177; border is <<left, top, right, bottom>>
parse_border(s, border) == border_scanned(border, sscanf(s, 4))

\* print_border, lines 179-182
print_border(border) == Bracket4(border[1], border[2], border[3], border[4])

\* strcmp(a, b) == 0
StrEq(a, b) == a = b

\* parse_color after the sscanf call, lines 195-200; "%" SCNd32 stores the
\* scanned number in colorValue with its 32-bit pattern unchanged
color_scanned(color, sc) ==
    IF sc.count # 1 THEN [ret |-> FALSE, out |-> color]
    ELSE [ret |-> TRUE, out |-> pixel_from_value(sc.vals[1])]

\* parse_color, lines 184-201
parse_color(s, color) ==
    IF StrEq(s, <<"b", "l", "a", "c", "k">>)
    THEN [ret |-> TRUE, out |-> PIXEL_BLACK]
    ELSE IF StrEq(s, <<"w", "h", "i", "t", "e">>)
    THEN [ret |-> TRUE, out |-> PIXEL_WHITE]
    ELSE color_scanned(color, sscanf(s, 1))

\* "#%02x%02x%02x"
HexTriplet(r, g, b) == <<"#">> \o Hex2(r) \o Hex2(g) \o Hex2(b)

\* a variant of print_color that prints every colour as a hex triplet
print_color_hex_only(color) == HexTriplet(color.r, color.g, color.b)

\* print_color, lines 203-212
print_color(color) ==
    IF compare_pixel(color, PIXEL_BLACK) = 0 THEN <<"b", "l", "a", "c", "k">>
    ELSE IF compare_pixel(color, PIXEL_WHITE) = 0 THEN <<"w", "h", "i", "t", "e">>
    ELSE HexTriplet(color.r, color.g, color.b)

\* strchr(s, c) != NULL
strchr(s, c) == \E i \in 1..Len(s) : s[i] = c

UpperChars == <<"A", "B", "C", "D", "E", "F", "G", "H", "I", "J", "K", "L", "M",
                "N", "O", "P", "Q", "R", "S", "T", "U", "V", "W", "X", "Y", "Z">>

LowerChars == <<"a", "b", "c", "d", "e", "f", "g", "h", "i", "j", "k", "l", "m",
                "n", "o", "p", "q", "r", "s", "t", "u", "v", "w", "x", "y", "z">>

tolower(c) ==
    IF \E i \in 1..26 : UpperChars[i] = c
    THEN LowerChars[CHOOSE i \in 1..26 : UpperChars[i] = c]
    ELSE c

\* strcasecmp(a, b): 0 when the two strings are equal ignoring case
strcasecmp(a, b) ==
    IF Len(a) = Len(b) /\ \A i \in 1..Len(a) : tolower(a[i]) = tolower(b[i])
    THEN 0 ELSE 1

\* a variant of parse_direction that looks for the lower-case letters only
parse_direction_lower(s, direction) ==
    LET h == strchr(s, "h")
        v == strchr(s, "v")
    IN  [ret |-> h \/ v \/ strcasecmp(s, <<"n", "o", "n", "e">>) = 0,
         out |-> <<h, v>>]

\* parse_direction, lines 214-224; direction is <<horizontal, vertical>>
parse_direction(s, direction) ==
    LET h == strchr(s, "h") \/ strchr(s, "H")
        v == strchr(s, "v") \/ strchr(s, "V")
    IN  [ret |-> h \/ v \/ strcasecmp(s, <<"n", "o", "n", "e">>) = 0,
         out |-> <<h, v>>]

\* sizeof(wipes->areas) / sizeof(wipes->areas[0])
AreasLength == WipesCapacity

\* the message parse_wipe writes to stderr: its kind ("capacity": maximum
\* number of wipes exceeded, "invalid": invalid wipe definition) and the
\* option it names
Diag(kind, optname) == [kind |-> kind, opt |-> optname]

\* a variant of wipe_parsed that counts a rejected definition too
wipe_parsed_counts_rejected(optname, w, r) ==
    [ret  |-> r.ret,
     out  |-> [count |-> w.count + 1,
               areas |-> [w.areas EXCEPT ![w.count] = r.out]],
     diag |-> IF r.ret THEN Diag("none", "none") ELSE Diag("invalid", optname)]

\* a variant of wipe_parsed that appends at the front
wipe_parsed_front(optname, w, r) ==
    [ret  |-> r.ret,
     out  |-> [count |-> IF r.ret THEN w.count + 1 ELSE w.count,
               areas |-> IF r.ret
                         THEN [i \in DOMAIN w.areas |->
                                 IF i = 0 THEN r.out ELSE w.areas[i - 1]]
                         ELSE [w.areas EXCEPT ![w.count] = r.out]],
     diag |-> IF r.ret THEN Diag("none", "none") ELSE Diag("invalid", optname)]

\* parse_wipe after parse_rectangle has written through
\* &wipes->areas[wipes->count], lines 158-164; r is parse_rectangle's result
wipe_parsed(optname, w, r) ==
    [ret  |-> r.ret,
     out  |-> [count |-> IF r.ret THEN w.count + 1 ELSE w.count,
               areas |-> [w.areas EXCEPT ![w.count] = r.out]],
     diag |-> IF r.ret THEN Diag("none", "none") ELSE Diag("invalid", optname)]

\* the capacity test of parse_wipe, line 152
wipe_is_full(w) == w.count >= AreasLength

\* a variant of parse_wipe that parses the text before it tests the capacity
parse_wipe_parse_first(optname, s, w) ==
    IF ~parse_rectangle(s, <<0, 0, 0, 0>>).ret
    THEN [ret |-> FALSE, out |-> w, diag |-> Diag("invalid", optname)]
    ELSE IF wipe_is_full(w)
    THEN [ret |-> FALSE, out |-> w, diag |-> Diag("capacity", optname)]
    ELSE wipe_parsed(optname, w, parse_rectangle(s, w.areas[w.count]))

\* parse_wipe, lines 151-165; w is the Wipes value
parse_wipe(optname, s, w) ==
    IF wipe_is_full(w)
    THEN [ret |-> FALSE, out |-> w, diag |-> Diag("capacity", optname)]
    ELSE wipe_parsed(optname, w, parse_rectangle(s, w.areas[w.count]))

(***************************************************************************)
(* The Options record and options_init, lines 14-59.                       *)
(***************************************************************************)
\* multi_index_empty, lines 14-16
multi_index_empty == [count |-> 0, indexes |-> "NULL"]

ScalarFields == {"start_sheet", "end_sheet", "start_input", "start_output",
                 "input_count", "output_count"}

NoMultiIndexFields ==
    {"no_blackfilter_multi_index", "no_noisefilter_multi_index",
     "no_blurfilter_multi_index", "no_grayfilter_multi_index",
     "no_mask_scan_multi_index", "no_mask_center_multi_index",
     "no_deskew_multi_index", "no_wipe_multi_index", "no_border_multi_index",
     "no_border_scan_multi_index", "no_border_align_multi_index"}

MultiIndexFields ==
    {"sheet_multi_index", "exclude_multi_index", "ignore_multi_index",
     "insert_blank", "replace_blank"} \cup NoMultiIndexFields

DeltaFields == {"pre_shift", "post_shift"}

SizeFields == {"sheet_size", "page_size", "post_page_size", "stretch_size",
               "post_stretch_size"}

OptionFields ==
    {"layout"} \cup ScalarFields \cup MultiIndexFields \cup DeltaFields
               \cup SizeFields

\* memset(o, 0, sizeof(Options)), line 19
ZeroOptions ==
    [f \in OptionFields |->
        CASE f = "layout"          -> "LAYOUT_0"
          [] f \in ScalarFields     -> 0
          [] f \in MultiIndexFields -> [count |-> 0, indexes |-> "NULL"]
          [] OTHER                  -> <<0, 0>>]

\* a variant of options_init that selects no sheet by default
options_init_no_sheet(old) ==
    [f \in OptionFields |->
        CASE f = "layout"          -> "LAYOUT_SINGLE"
          [] f = "start_sheet"     -> 1
          [] f \in {"end_sheet", "start_input", "start_output"} -> -1
          [] f \in {"input_count", "output_count"} -> 1
          [] f \in MultiIndexFields -> multi_index_empty
          [] f \in DeltaFields      -> <<0, 0>>
          [] f \in SizeFields       -> <<-1, -1>>]

\* options_init, lines 18-59: the record is zeroed, then assigned field by
\* field; nothing of the old content is read
options_init(old) ==
    [ZeroOptions EXCEPT
        !["layout"] = "LAYOUT_SINGLE",
        !["start_sheet"] = 1,
        !["end_sheet"] = -1,
        !["start_input"] = -1,
        !["start_output"] = -1,
        !["input_count"] = 1,
        !["output_count"] = 1,
        !["sheet_multi_index"] = [count |-> -1, indexes |-> "NULL"],
        !["exclude_multi_index"] = multi_index_empty,
        !["ignore_multi_index"] = multi_index_empty,
        !["insert_blank"] = multi_index_empty,
        !["replace_blank"] = multi_index_empty,
        !["no_blackfilter_multi_index"] = multi_index_empty,
        !["no_noisefilter_multi_index"] = multi_index_empty,
        !["no_blurfilter_multi_index"] = multi_index_empty,
        !["no_grayfilter_multi_index"] = multi_index_empty,
        !["no_mask_scan_multi_index"] = multi_index_empty,
        !["no_mask_center_multi_index"] = multi_index_empty,
        !["no_deskew_multi_index"] = multi_index_empty,
        !["no_wipe_multi_index"] = multi_index_empty,
        !["no_border_multi_index"] = multi_index_empty,
        !["no_border_scan_multi_index"] = multi_index_empty,
        !["no_border_align_multi_index"] = multi_index_empty,
        !["pre_shift"] = <<0, 0>>,
        !["post_shift"] = <<0, 0>>,
        !["sheet_size"] = <<-1, -1>>,
        !["page_size"] = <<-1, -1>>,
        !["post_page_size"] = <<-1, -1>>,
        !["stretch_size"] = <<-1, -1>>,
        !["post_stretch_size"] = <<-1, -1>>]

(***************************************************************************)
(* Texts as the grammar of the documentation describes them, independent   *)
(* of the scanning model above.                                            *)
(***************************************************************************)
\* an optionally signed decimal literal
IsIntLit(t) ==
    /\ Len(t) >= 1
    /\ LET body == IF t[1] \in {"-", "+"} THEN Tail(t) ELSE t
       IN  Len(body) >= 1 /\ \A i \in 1..Len(body) : IsDigit(body[i])

\* the same, after any amount of leading white space
IsIntLitW(t) ==
    \E k \in 0..Len(t) :
        /\ \A i \in 1..k : IsSpace(t[i])
        /\ IsIntLit(SubSeq(t, k + 1, Len(t)))

RECURSIVE LitMag(_)
LitMag(t) ==
    IF t = << >> THEN 0
    ELSE IF IsDigit(t[Len(t)])
         THEN 10 * LitMag(SubSeq(t, 1, Len(t) - 1)) + DigitVal(t[Len(t)])
         ELSE 0

\* the value of a literal accepted by IsIntLitW
LitVal(t) ==
    IF \E i \in 1..Len(t) : t[i] = "-" THEN 0 - LitMag(t) ELSE LitMag(t)

\* length of the longest prefix of s that is a literal; 0 when there is none
IntPrefix(s) ==
    LET ns == {n \in 0..Len(s) : n = 0 \/ IsIntLitW(SubSeq(s, 1, n))}
    IN  CHOOSE n \in ns : \A m \in ns : m <= n

\* the integers, separated by single commas, that s starts with (at most max)
RECURSIVE LeadingInts(_, _)
LeadingInts(s, max) ==
    LET n == IntPrefix(s)
        rest == SubSeq(s, n + 1, Len(s))
    IN  IF max = 0 \/ n = 0 THEN << >>
        ELSE <<LitVal(SubSeq(s, 1, n))>> \o
             (IF rest # << >> /\ rest[1] = "," THEN LeadingInts(Tail(rest), max - 1)
              ELSE << >>)

\* s is exactly k comma-separated integers and nothing else
RECURSIVE ExactInts(_, _)
ExactInts(s, k) ==
    IF k = 1 THEN IsIntLitW(s)
    ELSE \E i \in 1..Len(s) :
            /\ s[i] = ","
            /\ IsIntLitW(SubSeq(s, 1, i - 1))
            /\ ExactInts(SubSeq(s, i + 1, Len(s)), k - 1)

(***************************************************************************)
(* Values the variables hold in a specification that does not use them.    *)
(***************************************************************************)
ZeroRect == <<0, 0, 0, 0>>

NoWipes == [count |-> 0, areas |-> [i \in 0..(WipesCapacity - 1) |-> ZeroRect]]

NoDiag == [kind |-> "none", opt |-> "none"]

CallIdle ==
    /\ pc = "start" /\ fn = "none" /\ val = << >> /\ str = << >> /\ slot = << >>
    /\ prior = << >> /\ ret = FALSE /\ printed = << >>

WipeIdle ==
    /\ diag = NoDiag /\ wipes = NoWipes /\ before = NoWipes /\ accepted = << >>

OptionsIdle ==
    /\ o = << >> /\ inited = FALSE /\ sizeok = << >>

callVars == <<pc, fn, val, str, slot, prior, ret, printed>>
wipeVars == <<diag, wipes, before, accepted>>
optionVars == <<o, inited, sizeok>>

(***************************************************************************)
(* SpecPair: one call of a symmetric-pair parser on a text.                *)
(***************************************************************************)
PairAlphabet == {"1", "2", "3", "-", ",", " ", "x"}

PairLongTexts ==
    { <<"1", ",", "2", ",", "3">>,
      <<"1", "0", "0">>,
      <<"-", "1", ",", "5">>,
      <<"1", "2", ",", "-", "7">>,
      <<"-", "1", ",", "-", "1">>,
      <<"0", ",", "5">>,
      <<"5", ",", "5">>,
      <<" ", " ", "4", "2", ",", " ", "7", "x">>,
      <<"1", ",", "2", ",", "3", ",", "4">> }

PairTexts == TextsUpTo(PairAlphabet, MaxLen) \cup PairLongTexts

PairPriors == {<<-1, -1>>, <<0, 0>>}

InitPair ==
    /\ pc = "start" /\ fn = "none" /\ val = << >> /\ ret = FALSE /\ printed = << >>
    /\ str \in PairTexts
    /\ prior \in PairPriors
    /\ slot = prior
    /\ WipeIdle /\ OptionsIdle

Returned(name, r) ==
    /\ pc' = "called" /\ fn' = name
    /\ ret' = r.ret /\ slot' = r.out
    /\ UNCHANGED <<val, str, prior, printed, wipeVars, optionVars>>

Call_parse_symmetric_integers ==
    /\ pc = "start"
    /\ Returned("parse_symmetric_integers", parse_symmetric_integers(str, slot))

Call_parse_rectangle_size ==
    /\ pc = "start"
    /\ Returned("parse_rectangle_size", parse_rectangle_size(str, slot))

Call_parse_delta ==
    /\ pc = "start"
    /\ Returned("parse_delta", parse_delta(str, slot))

Call_parse_scan_step ==
    /\ pc = "start"
    /\ Returned("parse_scan_step", parse_scan_step(str, slot))

NextPair ==
    \/ Call_parse_symmetric_integers
    \/ Call_parse_rectangle_size
    \/ Call_parse_delta
    \/ Call_parse_scan_step

SpecPair == InitPair /\ [][NextPair]_vars

PairFns == {"parse_symmetric_integers", "parse_rectangle_size",
            "parse_delta", "parse_scan_step"}

\* the validation each pair parser applies after the scan
PairValid(name, v) ==
    CASE name = "parse_rectangle_size" -> v[1] >= 0 /\ v[2] >= 0
      [] name = "parse_scan_step"      -> v[1] > 0 /\ v[2] > 0
      [] OTHER                         -> TRUE

\* C5 as stated: the pair primitive succeeds with (a,b) on exactly two
\* comma-separated integers, with (a,a) on exactly one integer, and fails on
\* every other text (no value, non-numeric, more than two values).
C5_AsStated ==
    (pc = "called" /\ fn = "parse_symmetric_integers") =>
        LET li == LeadingInts(str, 2)
        IN  /\ ExactInts(str, 2) => (ret /\ slot = li)
            /\ ExactInts(str, 1) => (ret /\ slot = <<li[1], li[1]>>)
            /\ (~ExactInts(str, 1) /\ ~ExactInts(str, 2)) => ~ret

\* C5 (amended): the pair primitive scans a prefix of the text.  It succeeds
\* with (a,b) when the text starts with integer a, a comma and integer b,
\* succeeds with (a,a) when the text starts with an integer a that is not
\* followed by a comma and an integer, and fails, leaving the output untouched,
\* exactly when the text does not start with an integer; whatever follows the
\* scanned prefix (as in "1,2,3" or "1x") is ignored.  parse_delta is the
\* primitive; parse_rectangle_size and parse_scan_step store the same pair and
\* add their sign test to the result.
C5_PrefixScan ==
    (pc = "called" /\ fn \in PairFns) =>
        LET li == LeadingInts(str, 2)
            pair == IF Len(li) = 1 THEN <<li[1], li[1]>> ELSE li
        IN  IF li = << >> THEN ~ret /\ slot = prior
            ELSE slot = pair /\ (ret <=> PairValid(fn, pair))

\* parse_symmetric_integers("1,2,3") has returned true with (1,2)
C5_Witness ==
    /\ pc = "called" /\ fn = "parse_symmetric_integers"
    /\ str = <<"1", ",", "2", ",", "3">>
    /\ ret /\ slot = <<1, 2>>

(***************************************************************************)
(* SpecRect: one call of parse_rectangle or parse_border on a text.        *)
(***************************************************************************)
QuadRange == (0 - MaxQuad)..MaxQuad

\* a, b, c, d in decimal with single commas between them
Join4(a, b, c, d) ==
    IntToStr(a) \o <<",">> \o IntToStr(b) \o <<",">> \o IntToStr(c)
                \o <<",">> \o IntToStr(d)

QuadSuffixes == { << >>, <<"x">>, <<",", "5">> }

QuadLongTexts ==
    { <<"0", ",", "0", ",", "1", "0", ",", "1", "0">>,
      <<"0", ",", "0", ",", "0", ",", "0">>,
      <<" ", "3", ",", " ", "4", ",", " ", "1", "2", ",", "+", "9">>,
      <<"1", ",", "2", ",", "x">>,
      <<"1", ",", "2", ",", "3">>,
      <<"1", ",", "2", ",", "3", ",">>,
      <<"1", " ", ",", "2", ",", "3", ",", "4">> }

QuadTexts ==
    {Join4(q[1], q[2], q[3], q[4]) \o sfx :
        q \in QuadRange \X QuadRange \X QuadRange \X QuadRange, sfx \in QuadSuffixes}
    \cup TextsUpTo(PairAlphabet, MaxLen) \cup QuadLongTexts

QuadPriors == {ZeroRect, <<9, 9, 9, 9>>}

InitRect ==
    /\ pc = "start" /\ fn = "none" /\ val = << >> /\ ret = FALSE /\ printed = << >>
    /\ str \in QuadTexts
    /\ prior \in QuadPriors
    /\ slot = prior
    /\ WipeIdle /\ OptionsIdle

Call_parse_rectangle ==
    /\ pc = "start"
    /\ Returned("parse_rectangle", parse_rectangle(str, slot))

Call_parse_border ==
    /\ pc = "start"
    /\ Returned("parse_border", parse_border(str, slot))

NextRect == Call_parse_rectangle \/ Call_parse_border

SpecRect == InitRect /\ [][NextRect]_vars

PairRange == (0 - MaxPair)..MaxPair

Kinds == {"rectangle", "size", "delta", "border"}

\* the values of each kind that its parser accepts
ValidValue(kind, v) ==
    CASE kind = "rectangle" -> Len(v) = 4 /\ count_pixels(v) > 0
      [] kind = "size"      -> Len(v) = 2 /\ v[1] >= 0 /\ v[2] >= 0
      [] kind = "delta"     -> Len(v) = 2
      [] kind = "border"    -> Len(v) = 4 /\ \A i \in 1..4 : v[i] >= 0

\* the formatter of each kind
Formatter(kind, v) ==
    CASE kind = "rectangle" -> print_rectangle(v)
      [] kind = "size"      -> print_rectangle_size(v)
      [] kind = "delta"     -> print_delta(v)
      [] kind = "border"    -> print_border(v)

\* the parser of each kind
Parser(kind, s, out) ==
    CASE kind = "rectangle" -> parse_rectangle(s, out)
      [] kind = "size"      -> parse_rectangle_size(s, out)
      [] kind = "delta"     -> parse_delta(s, out)
      [] kind = "border"    -> parse_border(s, out)

RoundTripValues ==
    (PairRange \X PairRange)
    \cup (QuadRange \X QuadRange \X QuadRange \X QuadRange)
    \cup { <<0, 0, 10, 10>>, <<-12, 3, 40, 100>>, <<100, 0, 7, 2048>> }

\* the output argument starts out different from every value formatted
FreshSlot(v) == [i \in 1..Len(v) |-> -77]

InitRoundTrip ==
    /\ pc = "start" /\ fn = "none" /\ ret = FALSE /\ printed = << >>
    /\ str = << >>
    /\ val \in RoundTripValues
    /\ prior = FreshSlot(val)
    /\ slot = prior
    /\ WipeIdle /\ OptionsIdle

Call_print ==
    /\ pc = "start"
    /\ \E kind \in Kinds :
        /\ ValidValue(kind, val)
        /\ fn' = kind
        /\ printed' = Formatter(kind, val)
    /\ pc' = "printed"
    /\ UNCHANGED <<val, str, slot, prior, ret, wipeVars, optionVars>>

\* the parser is given the formatter's text
Reparse ==
    /\ pc = "printed"
    /\ LET r == Parser(fn, printed, slot)
       IN  ret' = r.ret /\ slot' = r.out
    /\ str' = printed
    /\ pc' = "reparsed"
    /\ UNCHANGED <<fn, val, prior, printed, wipeVars, optionVars>>

\* the parser is given the formatter's text without its first character
ReparseInner ==
    /\ pc = "printed"
    /\ LET r == Parser(fn, Tail(printed), slot)
       IN  ret' = r.ret /\ slot' = r.out
    /\ str' = Tail(printed)
    /\ pc' = "reparsed_inner"
    /\ UNCHANGED <<fn, val, prior, printed, wipeVars, optionVars>>

NextRoundTrip == Call_print \/ Reparse \/ ReparseInner

SpecRoundTrip == InitRoundTrip /\ [][NextRoundTrip]_vars

\* C6 as stated: for every valid rectangle, size, delta and border, the
\* matching parser applied to the matching formatter's text succeeds and
\* yields the same value.
C6_AsStated ==
    pc = "reparsed" => (ret /\ slot = val)

\* C6 (amended): for every valid rectangle, size, delta and border, the
\* formatter's text is the bracketed form "[...] ", which the matching parser
\* rejects without storing anything (the text starts with '['); the same text
\* without its leading '[' is parsed successfully by the matching parser and
\* yields the same value.
C6_BracketedRoundTrip ==
    /\ pc \in {"printed", "reparsed", "reparsed_inner"} =>
           (printed[1] = "[" /\ printed[Len(printed) - 1] = "]"
                             /\ printed[Len(printed)] = " ")
    /\ pc = "reparsed" => (~ret /\ slot = prior)
    /\ pc = "reparsed_inner" => (ret /\ slot = val)

\* a rectangle with a negative and a multi-digit coordinate has been formatted
\* and read back from the text without its bracket
C6_Witness ==
    /\ pc = "reparsed_inner" /\ fn = "rectangle"
    /\ val = <<-12, 3, 40, 100>> /\ ret /\ slot = val

(***************************************************************************)
(* SpecColor: parse_color on a text and, when it succeeds, print_color on  *)
(* the pixel it stored.                                                    *)
(***************************************************************************)
ColorAlphabet == {"0", "1", "5", "6", "-", "b"}

ColorLongTexts ==
    { <<"b", "l", "a", "c", "k">>,
      <<"w", "h", "i", "t", "e">>,
      <<"B", "l", "a", "c", "k">>,
      <<"W", "H", "I", "T", "E">>,
      <<"b", "l", "a", "c", "k", "x">>,
      <<"w", "h", "i", "t", "e", " ">>,
      <<"1", "6", "7", "7", "7", "2", "1", "5">>,
      <<"1", "6", "7", "7", "7", "2", "1", "4">>,
      <<"1", "6", "7", "7", "7", "2", "1", "6">>,
      <<"1", "6", "7", "1", "1", "6", "8", "0">>,
      <<"6", "5", "2", "8", "0">>,
      <<"1", "1", "2", "5", "9", "3", "7", "5">>,
      <<"2", "5", "5", ",", "0", ",", "0">> }

ColorTexts == TextsUpTo(ColorAlphabet, MaxLen) \cup ColorLongTexts

ColorPriors == {[r |-> 1, g |-> 2, b |-> 3], PIXEL_WHITE}

InitColor ==
    /\ pc = "start" /\ fn = "none" /\ val = << >> /\ ret = FALSE /\ printed = << >>
    /\ str \in ColorTexts
    /\ prior \in ColorPriors
    /\ slot = prior
    /\ WipeIdle /\ OptionsIdle

Call_parse_color ==
    /\ pc = "start"
    /\ Returned("parse_color", parse_color(str, slot))

Call_print_color ==
    /\ pc = "called" /\ fn = "parse_color" /\ ret
    /\ printed' = print_color(slot)
    /\ pc' = "printed"
    /\ UNCHANGED <<fn, val, str, slot, prior, ret, wipeVars, optionVars>>

NextColor == Call_parse_color \/ Call_print_color

SpecColor == InitColor /\ [][NextColor]_vars

WordBlack == <<"b", "l", "a", "c", "k">>

WordWhite == <<"w", "h", "i", "t", "e">>

\* the low 24 bits of the number a text starts with
Packed(s) == LeadingInts(s, 1)[1] % 16777216

\* the #rrggbb text of a packed colour
PackedHex(p) ==
    <<"#">> \o Hex2(p \div 65536) \o Hex2((p \div 256) % 256) \o Hex2(p % 256)

\* what the claims say of the words and of the texts accepted
ColorWords ==
    /\ (pc \in {"called", "printed"} /\ str = WordBlack) =>
           (ret /\ slot = PIXEL_BLACK)
    /\ (pc \in {"called", "printed"} /\ str = WordWhite) =>
           (ret /\ slot = PIXEL_WHITE)
    /\ (pc = "printed" /\ str = WordBlack) => printed = WordBlack
    /\ (pc = "printed" /\ str = WordWhite) => printed = WordWhite
    /\ (pc = "called" /\ str \notin {WordBlack, WordWhite}) =>
           (ret <=> LeadingInts(str, 1) # << >>)

\* C7 as stated: "black" and "white" map to the reserved constants, printed
\* as the words; every other accepted text is a numeric colour, and a numeric
\* colour (such as "16777215") is printed as its #rrggbb triplet, so only the
\* two words ever produce word-form output.
C7_AsStated ==
    /\ ColorWords
    /\ (pc = "printed" /\ str \notin {WordBlack, WordWhite}) =>
           printed = PackedHex(Packed(str))

\* C7 (amended): "black" and "white" map to the reserved constants, printed
\* as the words; every other accepted text is a numeric colour, which is
\* printed as its #rrggbb triplet unless its packed value equals a reserved
\* constant: a number whose low 24 bits are 0 (such as "0") is printed as
\* "black" and one whose low 24 bits are 0xffffff (such as "16777215") is
\* printed as "white".
C7_WordsAndNumbers ==
    /\ ColorWords
    /\ (pc = "printed" /\ str \notin {WordBlack, WordWhite}) =>
           printed = CASE Packed(str) = 0        -> WordBlack
                       [] Packed(str) = 16777215 -> WordWhite
                       [] OTHER                  -> PackedHex(Packed(str))

\* parse_color("16777215") succeeded and print_color printed "white"
C7_Witness ==
    /\ pc = "printed"
    /\ str = <<"1", "6", "7", "7", "7", "2", "1", "5">>
    /\ printed = WordWhite

(***************************************************************************)
(* SpecDirection: one call of parse_direction on a text.                   *)
(***************************************************************************)
DirAlphabet == {"h", "H", "v", "V", "n", "o", "N", "e", "x"}

DirLongTexts ==
    { <<"w", "h", "a", "t", "e", "v", "e", "r">>,
      <<"x", "y", "z">>,
      <<"n", "O", "N", "E">>,
      <<"N", "O", "N", "E">>,
      <<"n", "o", "n", "e", "s">>,
      <<"h", "o", "r", "i", "z", "o", "n", "t", "a", "l">>,
      <<"v", "e", "r", "t", "i", "c", "a", "l">>,
      <<"V", "E", "R", "T", "I", "C", "A", "L">>,
      <<"b", "o", "t", "h">>,
      <<"l", "e", "f", "t">> }

DirTexts == TextsUpTo(DirAlphabet, MaxLen) \cup DirLongTexts

DirPriors == {<<FALSE, FALSE>>, <<TRUE, TRUE>>}

InitDirection ==
    /\ pc = "start" /\ fn = "none" /\ val = << >> /\ ret = FALSE /\ printed = << >>
    /\ str \in DirTexts
    /\ prior \in DirPriors
    /\ slot = prior
    /\ WipeIdle /\ OptionsIdle

Call_parse_direction ==
    /\ pc = "start"
    /\ Returned("parse_direction", parse_direction(str, slot))

NextDirection == Call_parse_direction

SpecDirection == InitDirection /\ [][NextDirection]_vars

\* s contains one of the characters of cs
Contains(s, cs) == \E i \in 1..Len(s) : s[i] \in cs

\* the spellings of "none" in either case
NoneSpellings == {"n", "N"} \X {"o", "O"} \X {"n", "N"} \X {"e", "E"}

\* the decision rule of parse_direction
DirectionRule ==
    /\ slot[1] <=> Contains(str, {"h", "H"})
    /\ slot[2] <=> Contains(str, {"v", "V"})
    /\ ret <=> (slot[1] \/ slot[2] \/ str \in NoneSpellings)
    /\ str = <<"h">> => slot = <<TRUE, FALSE>>
    /\ str = <<"n", "o", "n", "e">> => (ret /\ slot = <<FALSE, FALSE>>)
    /\ str = <<"x", "y", "z">> => ~ret

Whatever == <<"w", "h", "a", "t", "e", "v", "e", "r">>

\* C8 as stated: horizontal is set exactly when the text contains 'h' or 'H',
\* vertical exactly when it contains 'v' or 'V', the call succeeds exactly
\* when a flag is set or the text is "none" in any case; "h" gives
\* (true,false), "none" succeeds with (false,false), "xyz" fails, and
\* "whatever" sets no flags.
C8_AsStated ==
    pc = "called" =>
        /\ DirectionRule
        /\ str = Whatever => slot = <<FALSE, FALSE>>

\* C8 (amended): the same rule and examples, except that "whatever", which
\* contains both an 'h' and a 'v', sets both flags and succeeds.
C8_SubstringRule ==
    pc = "called" =>
        /\ DirectionRule
        /\ str = Whatever => (ret /\ slot = <<TRUE, TRUE>>)

\* parse_direction("whatever") has returned true with both flags set
C8_Witness ==
    /\ pc = "called" /\ fn = "parse_direction"
    /\ str = Whatever /\ ret /\ slot = <<TRUE, TRUE>>

(***************************************************************************)
(* SpecWipe: any sequence of parse_wipe calls on a list that starts empty. *)
(***************************************************************************)
WipeTexts ==
    { <<"0", ",", "0", ",", "1", ",", "1">>,
      <<"1", ",", "1", ",", "3", ",", "2">>,
      <<"0", ",", "0", ",", "0", ",", "0">>,
      <<"2", ",", "2", ",", "1", ",", "1">>,
      <<"5", ",", "6", ",", "x">>,
      <<"7", ",", "8", ",", "9">>,
      <<"x">>,
      << >> }

OptNames == {"--wipe", "--pre-wipe"}

InitWipe ==
    /\ CallIdle /\ OptionsIdle
    /\ wipes = NoWipes /\ before = NoWipes
    /\ diag = NoDiag /\ accepted = << >>

\* the caller's view of a parse_wipe call with result r
Wiped(text, r) ==
    /\ pc' = "called" /\ fn' = "parse_wipe"
    /\ str' = text
    /\ ret' = r.ret
    /\ diag' = r.diag
    /\ before' = wipes
    /\ wipes' = r.out
    /\ accepted' = IF r.ret THEN Append(accepted, LeadingInts(text, 4))
                   ELSE accepted
    /\ UNCHANGED <<val, slot, prior, printed, optionVars>>

Call_parse_wipe ==
    \E optname \in OptNames, text \in WipeTexts :
        Wiped(text, parse_wipe(optname, text, wipes))

NextWipe == Call_parse_wipe

SpecWipe == InitWipe /\ [][NextWipe]_vars

\* the text is a valid rectangle definition
ValidRectText(s) ==
    Len(LeadingInts(s, 4)) = 4 /\ count_pixels(LeadingInts(s, 4)) > 0

\* C1: count never exceeds the length of the areas array; a call made while
\* count equals that length returns false with the capacity diagnostic,
\* whatever the text, and leaves count and every area unchanged.
C1_Capacity ==
    /\ wipes.count <= WipesCapacity
    /\ (fn = "parse_wipe" /\ before.count = WipesCapacity) =>
           (~ret /\ diag.kind = "capacity" /\ wipes = before)

\* a valid rectangle has been offered to a full list and refused
C1_Witness ==
    /\ fn = "parse_wipe" /\ before.count = WipesCapacity
    /\ ValidRectText(str) /\ ~ret /\ diag.kind = "capacity"

\* C2 as stated: a call on a list that is not full with a text that is no
\* valid rectangle returns false with the invalid-wipe diagnostic and leaves
\* count and every element of the areas array as they were.
C2_AsStated ==
    (fn = "parse_wipe" /\ before.count < WipesCapacity /\ ~ValidRectText(str)) =>
        (~ret /\ diag.kind = "invalid" /\ wipes = before)

\* C2 (amended): such a call returns false with the invalid-wipe diagnostic
\* and leaves count and the stored entries areas[0..count-1] as they were;
\* the only element that can change is the unused element areas[count], which
\* receives the fields scanned before the text was rejected.
C2_StoredEntriesKept ==
    (fn = "parse_wipe" /\ before.count < WipesCapacity /\ ~ValidRectText(str)) =>
        /\ ~ret /\ diag.kind = "invalid"
        /\ wipes.count = before.count
        /\ \A i \in DOMAIN wipes.areas :
               wipes.areas[i] = IF i = before.count
                                THEN Store(before.areas[i], LeadingInts(str, 4))
                                ELSE before.areas[i]

\* a rejected text has overwritten part of the unused element
C2_Witness ==
    /\ fn = "parse_wipe" /\ before.count < WipesCapacity /\ before.count > 0
    /\ ~ValidRectText(str) /\ ~ret /\ diag.kind = "invalid"
    /\ wipes.areas[before.count] # before.areas[before.count]

\* C10: count is the number of calls that returned true; areas[0..count-1]
\* are the rectangles of those calls in call order; a successful call stores
\* its rectangle at index old-count and adds one to count; no call, successful
\* or not, alters an entry accepted earlier.
C10_AppendOnly ==
    /\ wipes.count = Len(accepted)
    /\ wipes.count <= WipesCapacity
    /\ \A i \in 0..(wipes.count - 1) : wipes.areas[i] = accepted[i + 1]
    /\ \A i \in 0..(before.count - 1) : wipes.areas[i] = before.areas[i]
    /\ (fn = "parse_wipe" /\ ret) =>
           /\ wipes.count = before.count + 1
           /\ wipes.areas[before.count] = LeadingInts(str, 4)
    /\ (fn = "parse_wipe" /\ ~ret) => wipes.count = before.count

\* a successful call has just filled the list, whose first two rectangles
\* differ
C10_Witness ==
    /\ fn = "parse_wipe" /\ ret
    /\ before.count = WipesCapacity - 1 /\ wipes.count = WipesCapacity
    /\ accepted[1] # accepted[2]
    /\ wipes.areas[0] = accepted[1] /\ wipes.areas[1] = accepted[2]

(***************************************************************************)
(* SpecOptions: an Options record with arbitrary content is initialised,   *)
(* sizes and shifts are parsed into its fields, and it may be initialised  *)
(* again.                                                                  *)
(***************************************************************************)
\* what an uninitialised record may hold
GarbageInts == {-2, 0, 5}

GarbagePointers == {"NULL", "dangling"}

Garbage(g, p) ==
    [f \in OptionFields |->
        CASE f = "layout"          -> "LAYOUT_GARBAGE"
          [] f \in ScalarFields     -> g
          [] f \in MultiIndexFields -> [count |-> g, indexes |-> p]
          [] OTHER                  -> <<g, 0 - g>>]

SizeTexts ==
    { <<"2", ",", "3">>,
      <<"-", "1", ",", "5">>,
      <<"x">> }

ShiftTexts == { <<"-", "2", ",", "3">>, <<",">> }

InitOptions ==
    /\ CallIdle /\ WipeIdle
    /\ \E g \in GarbageInts, p \in GarbagePointers : o = Garbage(g, p)
    /\ inited = FALSE
    /\ sizeok = [f \in SizeFields |-> FALSE]

Call_options_init ==
    /\ o' = options_init(o)
    /\ inited' = TRUE
    /\ sizeok' = [f \in SizeFields |-> TRUE]
    /\ fn' = "options_init"
    /\ prior' = o
    /\ UNCHANGED <<pc, val, str, slot, ret, printed, wipeVars>>

\* parse_rectangle_size(text, &o->f) for a size field f
Set_size ==
    /\ inited
    /\ \E f \in SizeFields, text \in SizeTexts :
        LET r == parse_rectangle_size(text, o[f])
        IN  /\ o' = [o EXCEPT ![f] = r.out]
            /\ sizeok' = [sizeok EXCEPT ![f] = r.ret]
            /\ prior' = o[f]
    /\ fn' = "parse_rectangle_size"
    /\ UNCHANGED <<pc, val, str, slot, ret, printed, wipeVars, inited>>

\* parse_delta(text, &o->f) for a shift field f
Set_shift ==
    /\ inited
    /\ \E f \in DeltaFields, text \in ShiftTexts :
        /\ o' = [o EXCEPT ![f] = parse_delta(text, o[f]).out]
        /\ prior' = o[f]
    /\ fn' = "parse_delta"
    /\ UNCHANGED <<pc, val, str, slot, ret, printed, wipeVars, inited, sizeok>>

NextOptions == Call_options_init \/ Set_size \/ Set_shift

SpecOptions == InitOptions /\ [][NextOptions]_vars

MultiIndexAll == [count |-> -1, indexes |-> "NULL"]

MultiIndexNone == [count |-> 0, indexes |-> "NULL"]

\* C3: whatever the record held, options_init leaves sheet_multi_index
\* "select all", every other MultiIndex field "select none", start_sheet 1,
\* end_sheet -1, input_count and output_count 1, start_input and start_output
\* -1, the five sizes (-1,-1), and pre_shift and post_shift (0,0).
C3_Defaults ==
    fn = "options_init" =>
        /\ o["sheet_multi_index"] = MultiIndexAll
        /\ \A f \in MultiIndexFields \ {"sheet_multi_index"} : o[f] = MultiIndexNone
        /\ o["start_sheet"] = 1 /\ o["end_sheet"] = -1
        /\ o["input_count"] = 1 /\ o["output_count"] = 1
        /\ o["start_input"] = -1 /\ o["start_output"] = -1
        /\ \A f \in SizeFields : o[f] = <<-1, -1>>
        /\ \A f \in DeltaFields : o[f] = <<0, 0>>

\* options_init has been applied to a record that option parsing had changed
\* after an earlier initialisation
C3_Witness ==
    /\ fn = "options_init"
    /\ prior["layout"] = "LAYOUT_SINGLE"
    /\ prior["sheet_size"] = <<-1, 5>>
    /\ prior["pre_shift"] = <<-2, 3>>
    /\ o["sheet_size"] = <<-1, -1>> /\ o["pre_shift"] = <<0, 0>>

\* a size is unset or non-negative
SizeWellFormed(s) == s = <<-1, -1>> \/ (s[1] >= 0 /\ s[2] >= 0)

\* C4 as stated: after options_init and any parse_rectangle_size calls,
\* successful or failed, every size field is (-1,-1) or has width >= 0 and
\* height >= 0.
C4_AsStated ==
    inited => \A f \in SizeFields : SizeWellFormed(o[f])

\* C4 (amended): after options_init and any parse_rectangle_size calls, a
\* size field that has not been written since options_init, or whose latest
\* parse_rectangle_size call returned true, is (-1,-1) or has width >= 0 and
\* height >= 0; a call that returns false can leave a negative component in
\* the field.
C4_AcceptedSizes ==
    inited => \A f \in SizeFields : sizeok[f] => SizeWellFormed(o[f])

\* one size field holds an accepted size, another the remains of a rejected one
C4_Witness ==
    /\ inited
    /\ \E f, g \in SizeFields :
        /\ sizeok[f] /\ o[f] = <<2, 3>>
        /\ ~sizeok[g] /\ o[g] = <<-1, 5>>

=============================================================================
